---- MODULE Spec2Model ----
(***************************************************************************)
(* LazyCRC (iArtorias/lazy_crc), version 1.3.0: CRC32 of a file or of every *)
(* regular file of a directory, written as an .sfv manifest, and the check  *)
(* of an existing manifest (--check).                                       *)
(*                                                                          *)
(* Text is modelled as sequences of character codes, file content as        *)
(* sequences of bytes, a 32-bit checksum as the pair <<high, low>> of its   *)
(* 16-bit halves (so that no value leaves the range of the checker's        *)
(* integers).                                                               *)
(***************************************************************************)
EXTENDS Integers, Sequences, FiniteSets, TLC

\* ------------------------------------------------------------------------
\* Bounds of the model
\* ------------------------------------------------------------------------

\* longest stream the checksum engine is run on alone
MaxData == 3

\* largest scaled-down chunk size the engine is run with
MaxChunk == 3

\* bytes the engine's streams are drawn from
DataBytes == {0, 65, 255}

\* ------------------------------------------------------------------------
\* 32-bit arithmetic on <<high, low>> halves
\* ------------------------------------------------------------------------

RECURSIVE Xor(_, _)
\* bitwise exclusive or of two naturals
Xor(a, b) ==
    IF a = 0 THEN b
    ELSE IF b = 0 THEN a
    ELSE (((a % 2) + (b % 2)) % 2) + 2 * Xor(a \div 2, b \div 2)

\* exclusive or of two 32-bit words
Xor32(v, w) == <<Xor(v[1], w[1]), Xor(v[2], w[2])>>

\* ~v on 32 bits
Not32(v) == <<65535 - v[1], 65535 - v[2]>>

\* v >> n for 0 < n < 16, on 32 bits
Shr32(v, n) ==
    <<v[1] \div (2 ^ n), (v[2] \div (2 ^ n)) + ((v[1] % (2 ^ n)) * (2 ^ (16 - n)))>>

\* the word 0
Zero32 == <<0, 0>>

\* ------------------------------------------------------------------------
\* CRC32 (the Crc32 library the program calls; polynomial 0xEDB88320)
\* ------------------------------------------------------------------------

RECURSIVE CrcBits(_, _)
\* n rounds of: crc = (crc >> 1) ^ (-(crc & 1) & Polynomial)
CrcBits(v, n) ==
    IF n = 0 THEN v
    ELSE CrcBits(IF v[2] % 2 = 1 THEN Xor32(Shr32(v, 1), <<60856, 33568>>)
                                 ELSE Shr32(v, 1), n - 1)

\* the library's lookup table Crc32Lookup[0][i]
Crc32Lookup == [i \in 0..255 |-> CrcBits(<<0, i>>, 8)]

\* crc = (crc >> 8) ^ Crc32Lookup[(crc & 0xFF) ^ byte]
CrcByte(v, byte) == Xor32(Shr32(v, 8), Crc32Lookup[Xor(v[2] % 256, byte)])

RECURSIVE CrcFold(_, _)
\* the bytes of data folded into v one after the other, in order: the first
\* half of data, then, from the value that gave, the second
CrcFold(v, data) ==
    IF data = <<>> THEN v
    ELSE IF Len(data) = 1 THEN CrcByte(v, data[1])
    ELSE LET half == Len(data) \div 2
             w == CrcFold(v, SubSeq(data, 1, half))
         IN IF w = Zero32
            THEN CrcFold(Zero32, SubSeq(data, half + 1, Len(data)))
            ELSE CrcFold(w, SubSeq(data, half + 1, Len(data)))

\* crc32_2x16bytes_prefetch(data, length, previousCrc32): the CRC32 of data,
\* continued from the checksum of what came before it
crc32_2x16bytes_prefetch(data, previousCrc32) ==
    Not32(CrcFold(Not32(previousCrc32), data))

\* ------------------------------------------------------------------------
\* The chunked checksum loop (calculate_crc)
\* ------------------------------------------------------------------------

\* 1 Mb
CHUNK_SIZE == 1048576

\* file_in.read(data, n) at offset pos of a stream holding `content`
file_read(content, pos, n) ==
    SubSeq(content, pos + 1, IF pos + n < Len(content) THEN pos + n ELSE Len(content))

\* auto chunk_size = (CHUNK_SIZE < bytes_left) ? CHUNK_SIZE : bytes_left
chunk_size(chunk, bytes_left) == IF chunk < bytes_left THEN chunk ELSE bytes_left

\* the mutant of LoopCrc: every chunk is folded from the seed 0
LoopCrcReseeded(content, chunk, c, processed, file_size) ==
    crc32_2x16bytes_prefetch(
        file_read(content, processed, chunk_size(chunk, file_size - processed)),
        Zero32)

\* one pass of the loop body: the checksum after the next chunk
LoopCrc(content, chunk, c, processed, file_size) ==
    crc32_2x16bytes_prefetch(
        file_read(content, processed, chunk_size(chunk, file_size - processed)),
        c)

RECURSIVE CalcLoop(_, _, _, _, _)
\* while (bytes_processed < file_size) { ... }
CalcLoop(content, chunk, c, processed, file_size) ==
    IF processed < file_size
    THEN CalcLoop(content, chunk,
                  LoopCrc(content, chunk, c, processed, file_size),
                  processed + chunk_size(chunk, file_size - processed),
                  file_size)
    ELSE c

\* calculate_crc(file_in, file_size) with the program's chunk size
calculate_crc(content, file_size) == CalcLoop(content, CHUNK_SIZE, Zero32, 0, file_size)

\* ------------------------------------------------------------------------
\* to_hex
\* ------------------------------------------------------------------------

\* one uppercase hexadecimal digit
HexDigit(d) == IF d < 10 THEN 48 + d ELSE 55 + d

\* four digits of a 16-bit half, zero padded
Hex16(h) ==
    <<HexDigit(h \div 4096), HexDigit((h \div 256) % 16),
      HexDigit((h \div 16) % 16), HexDigit(h % 16)>>

\* to_hex(crc): setfill('0') << setw(8) << hex << uppercase
to_hex(v) == Hex16(v[1]) \o Hex16(v[2])

\* the CRC32 of a whole content, folded in one step, as 8 hex digits
TrueHash(content) == to_hex(crc32_2x16bytes_prefetch(content, Zero32))

\* ------------------------------------------------------------------------
\* Text
\* ------------------------------------------------------------------------

\* the last element of a non-empty sequence
Last(s) == s[Len(s)]

\* a sequence without its last element
Front(s) == SubSeq(s, 1, Len(s) - 1)

RECURSIVE SeqLess(_, _)
\* a < b for strings: the order of std::map<fs::path, ...> on one-component paths
SeqLess(a, b) ==
    IF b = <<>> THEN FALSE
    ELSE IF a = <<>> THEN TRUE
    ELSE IF Head(a) # Head(b) THEN Head(a) < Head(b)
    ELSE SeqLess(Tail(a), Tail(b))

RECURSIVE TextModeOut(_)
\* what a stream opened without ios::binary puts on disk: "\n" as "\r\n"
TextModeOut(text) ==
    IF text = <<>> THEN <<>>
    ELSE IF Len(text) = 1 THEN (IF text[1] = 10 THEN <<13, 10>> ELSE text)
    ELSE TextModeOut(SubSeq(text, 1, Len(text) \div 2))
         \o TextModeOut(SubSeq(text, (Len(text) \div 2) + 1, Len(text)))

RECURSIVE TextModeRange(_, _, _)
\* bytes[lo..hi] without the "\r" of every "\r\n"
TextModeRange(bytes, lo, hi) ==
    IF lo > hi THEN <<>>
    ELSE IF lo = hi
         THEN (IF bytes[lo] = 13 /\ lo < Len(bytes) /\ bytes[lo + 1] = 10
               THEN <<>> ELSE <<bytes[lo]>>)
    ELSE TextModeRange(bytes, lo, (lo + hi) \div 2)
         \o TextModeRange(bytes, ((lo + hi) \div 2) + 1, hi)

\* what a stream opened without ios::binary reads from disk: "\r\n" as "\n"
TextModeIn(bytes) == TextModeRange(bytes, 1, Len(bytes))

\* the lines std::getline yields from text: each ends before a "\n", the
\* last one, if not empty, at the end of the text
GetLines(text) ==
    LET n == Len(text)
        ends == {i \in 1..n : text[i] = 10}
                  \cup (IF n > 0 /\ text[n] # 10 THEN {n + 1} ELSE {})
        EndOf(k) == CHOOSE e \in ends : Cardinality({j \in ends : j <= e}) = k
        StartOf(k) == IF k = 1 THEN 1 ELSE EndOf(k - 1) + 1
    IN [k \in 1..Cardinality(ends) |-> SubSeq(text, StartOf(k), EndOf(k) - 1)]

\* for (std::u16string line; getline(file_sfv, line); ) over a file's bytes
ReadLines(bytes) == GetLines(TextModeIn(bytes))

\* ------------------------------------------------------------------------
\* Paths
\* ------------------------------------------------------------------------

\* the directory the program is pointed at, "d"
DirName == <<100>>

\* two regular files of the directory, "x" and "y"
FileX == <<120>>
FileY == <<121>>

\* path_file.filename() += ".sfv"
SfvName(target) == target \o <<46, 115, 102, 118>>

\* "LazyCRC_BadFiles.log"
LogName ==
    <<76, 97, 122, 121, 67, 82, 67, 95, 66, 97, 100, 70, 105, 108, 101, 115,
      46, 108, 111, 103>>

\* the file names of the directory
Names == {FileX, FileY, SfvName(DirName), SfvName(FileX), LogName}

\* no file of that name (a value no content equals: -1 is no byte)
NoFile == <<-1>>

\* the regular files a directory holds
Existing(fsys) == {n \in Names : fsys[n] # NoFile}

\* fs::exists(parent_path / path)
Exists(fsys, path) == path \in Names /\ fsys[path] # NoFile

\* ------------------------------------------------------------------------
\* The manifest store (m_files, a std::map in key order)
\* ------------------------------------------------------------------------

\* m_files.find(key) != m_files.end()
Contains(store, key) == \E i \in 1..Len(store) : store[i][1] = key

\* the mutant of try_emplace: an insert for a present key overwrites its value
insert_or_assign(store, key, hash) ==
    LET others == SelectSeq(store, LAMBDA e : e[1] # key)
        below == Cardinality({i \in 1..Len(others) : SeqLess(others[i][1], key)})
    IN SubSeq(others, 1, below) \o <<<<key, hash>>>> \o SubSeq(others, below + 1, Len(others))

\* the mutant of try_emplace: the new entry goes to the end of the store
try_emplace_unordered(store, key, hash) ==
    IF Contains(store, key) THEN store ELSE Append(store, <<key, hash>>)

\* m_files.try_emplace(key, hash)
try_emplace(store, key, hash) ==
    IF Contains(store, key) THEN store
    ELSE LET below == Cardinality({i \in 1..Len(store) : SeqLess(store[i][1], key)})
         IN SubSeq(store, 1, below) \o <<<<key, hash>>>> \o SubSeq(store, below + 1, Len(store))

\* insert_files(file, crc): try_emplace under the lock
insert_files(store, file, hash) == try_emplace(store, file, hash)

\* the mutant of EraseSelf: the manifest's own entry stays in the store
EraseNothing(store, sfv_name) == store

\* it = m_files.find(path_sfv.filename()); if (it != end) m_files.erase(it)
EraseSelf(store, sfv_name) == SelectSeq(store, LAMBDA e : e[1] # sfv_name)

RECURSIVE Serialize(_)
\* for (auto const& [path, hash] : m_files) data << path << ' ' << hash << endl
Serialize(store) ==
    IF store = <<>> THEN <<>>
    ELSE Head(store)[1] \o <<32>> \o Head(store)[2] \o <<10>> \o Serialize(Tail(store))

\* detail::utf16_to_utf8, on the ASCII text of the model: one byte per unit
utf16_to_utf8(text) == [i \in 1..Len(text) |-> text[i] % 256]

\* the bytes write_sfv puts in the manifest file
SfvBytes(store) == TextModeOut(utf16_to_utf8(Serialize(store)))

\* ------------------------------------------------------------------------
\* Per-file processing in build mode
\* ------------------------------------------------------------------------

\* to_hex(calculate_crc(file, size)) of a file holding `content`
FileHash(content) == to_hex(calculate_crc(content, Len(content)))

\* process_file in build mode: the store after one file; size_ec and rel_ec
\* are the error codes of fs::file_size and fs::relative
BuildOne(store, key, content, size_ec, rel_ec) ==
    IF size_ec THEN store
    ELSE IF rel_ec THEN store
    ELSE insert_files(store, key, FileHash(content))

\* ------------------------------------------------------------------------
\* One manifest line in check mode
\* ------------------------------------------------------------------------

\* [a-fA-F0-9]
IsHexChar(c) == c \in (48..57) \cup (65..70) \cup (97..102)

\* regex_search(line, LR"(^(.* )?([a-fA-F0-9]{8})$)")
RegexMatch(line) ==
    /\ Len(line) >= 8
    /\ \A i \in (Len(line) - 7)..Len(line) : IsHexChar(line[i])
    /\ IF Len(line) = 8 THEN TRUE ELSE line[Len(line) - 8] = 32

\* regex_match[1]
Group1(line) == SubSeq(line, 1, Len(line) - 8)

\* regex_match[2]
Group2(line) == SubSeq(line, Len(line) - 7, Len(line))

RECURSIVE trim_str(_, _)
\* while (str.back() == trim_char) str.pop_back(), where back() is defined
trim_str(str, trim_char) ==
    IF str # <<>> /\ Last(str) = trim_char THEN trim_str(Front(str), trim_char)
    ELSE str

\* trim_str calls back() on an empty string: the string passed is empty or
\* holds nothing but the trimmed character
TrimUndefined(str, trim_char) == \A i \in 1..Len(str) : str[i] = trim_char

\* the mutant of Matched: the test for a comment is left out
MatchedComments(line) == line # <<>> /\ RegexMatch(line)

\* the line is read past the blank and comment tests and the regex
Matched(line) == line # <<>> /\ Head(line) # 59 /\ RegexMatch(line)

\* path_in_sfv
PathInSfv(line) == trim_str(Group1(line), 32)

\* u"Unable to open the file"
ReasonOpen ==
    <<85, 110, 97, 98, 108, 101, 32, 116, 111, 32, 111, 112, 101, 110, 32,
      116, 104, 101, 32, 102, 105, 108, 101>>

\* u"Unable to obtain the file size"
ReasonSize ==
    <<85, 110, 97, 98, 108, 101, 32, 116, 111, 32, 111, 98, 116, 97, 105, 110,
      32, 116, 104, 101, 32, 102, 105, 108, 101, 32, 115, 105, 122, 101>>

\* u"CRC does not match"
ReasonCrc ==
    <<67, 82, 67, 32, 100, 111, 101, 115, 32, 110, 111, 116, 32, 109, 97, 116,
      99, 104>>

\* what append_bad_files(ustr, reason) adds to m_bad_files
BadEntry(ustr, reason) == ustr \o <<32>> \o reason \o <<10>>

RECURSIVE UpperCase(_)
\* text with its letters in upper case
UpperCase(text) ==
    IF text = <<>> THEN <<>>
    ELSE <<IF Head(text) \in 97..122 THEN Head(text) - 32 ELSE Head(text)>>
         \o UpperCase(Tail(text))

\* crc != crc_in_sfv, on std::wstring
HashDiffers(hash, crc_in_sfv) == hash # crc_in_sfv

\* the mutant of CheckEntry: the checksum is compared before the file is probed
CheckEntryCompareFirst(fsys, path, crc_in_sfv, size_ec) ==
    IF Exists(fsys, path) /\ HashDiffers(FileHash(fsys[path]), crc_in_sfv)
    THEN BadEntry(path, ReasonCrc)
    ELSE IF ~Exists(fsys, path) \/ fsys[path] = <<>> THEN BadEntry(path, ReasonOpen)
    ELSE IF size_ec THEN BadEntry(path, ReasonSize)
    ELSE <<>>

\* what the check of one (path, checksum) pair adds to m_bad_files: the file
\* cannot be opened or peek() meets the end of the stream, its size cannot be
\* obtained, its checksum differs, or nothing
CheckEntry(fsys, path, crc_in_sfv, size_ec) ==
    IF ~Exists(fsys, path) \/ fsys[path] = <<>> THEN BadEntry(path, ReasonOpen)
    ELSE IF size_ec THEN BadEntry(path, ReasonSize)
    ELSE IF HashDiffers(FileHash(fsys[path]), crc_in_sfv) THEN BadEntry(path, ReasonCrc)
    ELSE <<>>

\* what one line of the manifest adds to m_bad_files (trim_str being defined
\* on it)
CheckLine(fsys, line, size_ec) ==
    IF ~Matched(line) THEN <<>>
    ELSE IF PathInSfv(line) = <<>> THEN <<>>
    ELSE CheckEntry(fsys, PathInSfv(line), Group2(line), size_ec)

\* ------------------------------------------------------------------------
\* State
\* ------------------------------------------------------------------------

VARIABLES
    stream,           \* engine: the content of the stream being read
    chunk_cap,        \* engine: the chunk size in effect
    crc,              \* engine: uint32_t crc
    bytes_processed,  \* engine: size_t bytes_processed
    reads,            \* engine: number of chunk reads made
    calc_pc,          \* engine: position in calculate_crc
    size_probed,      \* engine: the file_size calculate_crc is given
    short_reads,      \* engine: reads that got fewer bytes than they asked for
    fs,               \* the directory: file name -> content, or NoFile
    pc,               \* position of the running process, "exit" when none runs
    m_check_sfv,      \* bool m_check_sfv
    path_file,        \* the target given on the command line
    todo,             \* directory entries the iteration has still to yield
    m_files,          \* the manifest store
    m_bad_files,      \* the bad-file log
    sfv_lines,        \* lines of the manifest still to be read
    faults,           \* errors the filesystem calls of this run have reported
    opens,            \* files this run has tried to open (try_open_file)
    appends,          \* calls of append_bad_files in this run
    runs,             \* number of invocations so far
    history,          \* the finished invocations, in order
    inserts,          \* the calls of insert_files made so far, in order
    m_files_mtx,      \* std::mutex m_files_mtx: the worker holding it, 0 when free
    wpc,              \* workers: the position of each in process_file
    wfile,            \* workers: the file each processes
    wout,             \* workers: the checksum or bad-file entry each has computed
    wseen             \* workers: m_bad_files as each found it when its += began

engineVars ==
    <<stream, chunk_cap, crc, bytes_processed, reads, calc_pc, size_probed,
      short_reads>>

programVars ==
    <<fs, pc, m_check_sfv, path_file, todo, m_files, m_bad_files, sfv_lines,
      faults, opens, appends, runs, history>>

workerVars == <<inserts, m_files_mtx, wpc, wfile, wout, wseen>>

vars == <<engineVars, programVars, workerVars>>

\* ------------------------------------------------------------------------
\* The checksum engine, one chunk per step
\* ------------------------------------------------------------------------

RECURSIVE SeqsUpTo(_, _)
\* every sequence over S of length at most n
SeqsUpTo(S, n) ==
    IF n = 0 THEN {<<>>}
    ELSE LET shorter == SeqsUpTo(S, n - 1)
         IN shorter \cup {Append(s, b) : s \in {t \in shorter : Len(t) = n - 1}, b \in S}

\* chunk sizes the engine is run with: scaled-down ones and the program's
ChunkSizes == (1..MaxChunk) \cup {CHUNK_SIZE}

\* no process runs and none has run
ProgramIdle ==
    /\ pc = "exit"
    /\ m_check_sfv = FALSE
    /\ path_file = <<>>
    /\ todo = {}
    /\ m_files = <<>>
    /\ m_bad_files = <<>>
    /\ sfv_lines = <<>>
    /\ faults = 0
    /\ opens = 0
    /\ appends = 0
    /\ runs = 0
    /\ history = <<>>

\* most workers running process_file at once
MaxWorkers == 2

\* the threads process_file is called from
Workers == 1..MaxWorkers

\* process_file is called from the main thread alone
WorkersIdle ==
    /\ inserts = <<>>
    /\ m_files_mtx = 0
    /\ wpc = [w \in Workers |-> "idle"]
    /\ wfile = [w \in Workers |-> <<>>]
    /\ wout = [w \in Workers |-> <<>>]
    /\ wseen = [w \in Workers |-> <<>>]

\* the engine is not run on its own
EngineIdle ==
    /\ stream = <<>>
    /\ chunk_cap = CHUNK_SIZE
    /\ crc = Zero32
    /\ bytes_processed = 0
    /\ reads = 0
    /\ calc_pc = "done"
    /\ size_probed = 0
    /\ short_reads = 0

EngineInit ==
    /\ ProgramIdle
    /\ WorkersIdle
    /\ fs = [n \in Names |-> NoFile]
    /\ stream \in SeqsUpTo(DataBytes, MaxData)
    /\ chunk_cap \in ChunkSizes
    /\ crc = Zero32
    /\ bytes_processed = 0
    /\ reads = 0
    /\ calc_pc = "loop"
    /\ size_probed = Len(stream)
    /\ short_reads = 0

\* the size the loop is given: the probed size of the stream
file_size == Len(stream)

\* one iteration of the while loop
ReadChunk ==
    /\ calc_pc = "loop"
    /\ bytes_processed < file_size
    /\ crc' = LoopCrc(stream, chunk_cap, crc, bytes_processed, file_size)
    /\ bytes_processed' =
           bytes_processed + chunk_size(chunk_cap, file_size - bytes_processed)
    /\ reads' = reads + 1
    /\ UNCHANGED <<stream, chunk_cap, calc_pc, size_probed, short_reads, programVars,
                   workerVars>>

\* the loop condition fails: return crc
ReturnCrc ==
    /\ calc_pc = "loop"
    /\ ~(bytes_processed < file_size)
    /\ calc_pc' = "done"
    /\ UNCHANGED <<stream, chunk_cap, crc, bytes_processed, reads, size_probed,
                   short_reads, programVars, workerVars>>

EngineNext == ReadChunk \/ ReturnCrc

SpecEngine == EngineInit /\ [][EngineNext]_vars

\* C1: whatever the chunk size, the loop ends having consumed exactly
\* file_size bytes, every read having consumed at least one, and its checksum is the
\* CRC32 of the whole content folded in one step; until then it has consumed
\* no more than file_size bytes and holds the CRC32 of the bytes consumed.
ChunkSizeIndependence ==
    /\ bytes_processed <= file_size
    /\ reads <= bytes_processed
    /\ crc = crc32_2x16bytes_prefetch(SubSeq(stream, 1, bytes_processed), Zero32)
    /\ calc_pc = "done" =>
          /\ bytes_processed = file_size
          /\ crc = crc32_2x16bytes_prefetch(stream, Zero32)
          /\ crc = CalcLoop(stream, chunk_cap, Zero32, 0, file_size)

\* the loop has ended on a stream longer than its chunk size
ChunkedRunDone ==
    /\ calc_pc = "done"
    /\ chunk_cap < file_size
    /\ reads > 1

\* ------------------------------------------------------------------------
\* The program, one invocation after another (wmain)
\* ------------------------------------------------------------------------

\* most invocations in a row
MaxRuns == 2

\* longest content of a regular file
MaxLen == 1

\* bytes the regular files are made of, "A" and "B"
FileBytes == {65, 66}

\* what a regular file may hold
Contents == SeqsUpTo(FileBytes, MaxLen)

\* the path of the output manifest inside the directory: the directory's
\* name, or the single file's, with ".sfv"
path_sfv == SfvName(path_file)

\* the mutant of ReportNeeded: the report is written whatever the log holds
ReportAlways(bad) == TRUE

\* !m_bad_files.empty(): the report is to be written
ReportNeeded(bad) == bad # <<>>

\* a record of a finished invocation: out is the text it wrote to its
\* manifest or report, bad the bad-file log it ended with, had_self whether
\* the store held the manifest's own name when it was written
Finished(status, out, had_self) ==
    [check |-> m_check_sfv, target |-> path_file, status |-> status,
     out |-> out, bad |-> m_bad_files, faults |-> faults, appends |-> appends,
     had_self |-> had_self]

\* a new process: its globals as initialized
Launch(target, check) ==
    /\ pc = "exit"
    /\ runs < MaxRuns
    /\ runs' = runs + 1
    /\ path_file' = target
    /\ m_check_sfv' = check
    /\ m_files' = <<>>
    /\ m_bad_files' = <<>>
    /\ sfv_lines' = <<>>
    /\ faults' = 0
    /\ opens' = 0
    /\ appends' = 0

\* lazy_crc <directory>, the directory holding something
StartDir ==
    /\ Launch(DirName, FALSE)
    /\ Existing(fs) # {}
    /\ todo' = Existing(fs)
    /\ pc' = "dir_loop"
    /\ UNCHANGED <<fs, history, engineVars, workerVars>>

\* lazy_crc <file> [--check], the file existing
StartFile(target, check) ==
    /\ Launch(target, check)
    /\ Exists(fs, target)
    /\ todo' = {}
    /\ pc' = "file"
    /\ UNCHANGED <<fs, history, engineVars, workerVars>>

\* the target does not exist, or is an empty directory: the program prints
\* an error and returns -1
RejectTarget(target, check) ==
    /\ Launch(target, check)
    /\ IF target = DirName THEN Existing(fs) = {} ELSE ~Exists(fs, target)
    /\ todo' = {}
    /\ pc' = "exit"
    /\ history' = Append(history,
           [check |-> check, target |-> target, status |-> "error",
            out |-> <<>>, bad |-> <<>>, faults |-> 0, appends |-> 0,
            had_self |-> FALSE])
    /\ UNCHANGED <<fs, engineVars, workerVars>>

\* 1 for an error code set, 0 for none
Errors(ec) == IF ec THEN 1 ELSE 0

\* the error codes a filesystem call may report: the filesystem fails a run
\* at most once
ErrorCodes == IF faults = 0 THEN BOOLEAN ELSE {FALSE}

\* one step of the recursive_directory_iterator loop: process_file(entry, path_file)
ProcessEntry ==
    /\ pc = "dir_loop"
    /\ \E entry \in todo, size_ec \in ErrorCodes, rel_ec \in ErrorCodes :
          /\ size_ec => ~rel_ec
          /\ todo' = todo \ {entry}
          /\ m_files' = BuildOne(m_files, entry, fs[entry], size_ec, rel_ec)
          /\ faults' = faults + Errors(size_ec \/ rel_ec)
    /\ opens' = opens + 1
    /\ UNCHANGED <<fs, pc, m_check_sfv, path_file, m_bad_files, sfv_lines, appends,
                   runs, history, engineVars, workerVars>>

\* the directory iteration is over
EndDirLoop ==
    /\ pc = "dir_loop"
    /\ todo = {}
    /\ pc' = "write_sfv"
    /\ UNCHANGED <<fs, m_check_sfv, path_file, todo, m_files, m_bad_files,
                   sfv_lines, faults, opens, appends, runs, history, engineVars, workerVars>>

\* process_file(path_file) without --check: the file's own name is the key
ProcessSingle ==
    /\ pc = "file"
    /\ ~m_check_sfv
    /\ \E size_ec \in ErrorCodes :
          /\ m_files' = BuildOne(m_files, path_file, fs[path_file], size_ec, FALSE)
          /\ faults' = faults + Errors(size_ec)
    /\ opens' = opens + 1
    /\ pc' = "write_sfv"
    /\ UNCHANGED <<fs, m_check_sfv, path_file, todo, m_bad_files, sfv_lines,
                   appends, runs, history, engineVars, workerVars>>

\* process_file(path_file) with --check, up to the first getline: the
\* manifest is opened, its size probed, then it is opened as text
OpenSfv ==
    /\ pc = "file"
    /\ m_check_sfv
    /\ \E size_ec \in ErrorCodes :
          /\ faults' = faults + Errors(size_ec)
          /\ IF size_ec
             THEN pc' = "write_sfv" /\ sfv_lines' = <<>>
             ELSE pc' = "sfv_loop" /\ sfv_lines' = ReadLines(fs[path_file])
    /\ opens' = opens + 1
    /\ UNCHANGED <<fs, m_check_sfv, path_file, todo, m_files, m_bad_files, appends,
                   runs, history, engineVars, workerVars>>

\* the line under getline
line == Head(sfv_lines)

\* the line names a file to check: try_open_file is called on it
NamesFile(l) == Matched(l) /\ PathInSfv(l) # <<>>

\* one pass of the getline loop on a line trim_str is defined on (or is not
\* reached for)
VerifyLine ==
    /\ pc = "sfv_loop"
    /\ sfv_lines # <<>>
    /\ ~(Matched(line) /\ TrimUndefined(Group1(line), 32))
    /\ \E size_ec \in ErrorCodes :
          /\ size_ec => /\ NamesFile(line)
                        /\ Exists(fs, PathInSfv(line))
                        /\ fs[PathInSfv(line)] # <<>>
          /\ m_bad_files' = m_bad_files \o CheckLine(fs, line, size_ec)
          /\ appends' = appends + Errors(CheckLine(fs, line, size_ec) # <<>>)
          /\ faults' = faults + Errors(size_ec)
    /\ opens' = opens + Errors(NamesFile(line))
    /\ sfv_lines' = Tail(sfv_lines)
    /\ UNCHANGED <<fs, pc, m_check_sfv, path_file, todo, m_files, runs, history,
                   engineVars, workerVars>>

\* one pass of the getline loop on a line that makes trim_str call back() on
\* an empty string: the read yields something other than the trimmed
\* character and the path is empty, or the process dies
VerifyLineUndefined ==
    /\ pc = "sfv_loop"
    /\ sfv_lines # <<>>
    /\ Matched(line) /\ TrimUndefined(Group1(line), 32)
    /\ \/ /\ sfv_lines' = Tail(sfv_lines)
          /\ UNCHANGED <<pc, history>>
       \/ /\ sfv_lines' = <<>>
          /\ pc' = "exit"
          /\ history' = Append(history, Finished("crash", <<>>, FALSE))
    /\ UNCHANGED <<fs, m_check_sfv, path_file, todo, m_files, m_bad_files, faults,
                   opens, appends, runs, engineVars, workerVars>>

\* getline meets the end of the manifest
EndSfv ==
    /\ pc = "sfv_loop"
    /\ sfv_lines = <<>>
    /\ pc' = "write_sfv"
    /\ UNCHANGED <<fs, m_check_sfv, path_file, todo, m_files, m_bad_files,
                   sfv_lines, faults, opens, appends, runs, history, engineVars, workerVars>>

\* write_sfv with --check: the report is written when the log is not empty
WriteReport ==
    /\ pc = "write_sfv"
    /\ m_check_sfv
    /\ IF ReportNeeded(m_bad_files)
       THEN /\ fs' = [fs EXCEPT ![LogName] = TextModeOut(utf16_to_utf8(m_bad_files))]
            /\ history' = Append(history, Finished("failed", m_bad_files, FALSE))
       ELSE /\ fs' = fs
            /\ history' = Append(history, Finished("success", <<>>, FALSE))
    /\ pc' = "exit"
    /\ UNCHANGED <<m_check_sfv, path_file, todo, m_files, m_bad_files, sfv_lines,
                   faults, opens, appends, runs, engineVars, workerVars>>

\* write_sfv without --check: the store, less the manifest's own entry, is
\* written to the manifest; open_ec is the failure to open it for writing
WriteSfv ==
    /\ pc = "write_sfv"
    /\ ~m_check_sfv
    /\ IF m_files = <<>>
       THEN /\ history' = Append(history, Finished("nothing", <<>>, FALSE))
            /\ UNCHANGED <<fs, m_files, faults>>
       ELSE \E open_ec \in ErrorCodes :
            /\ m_files' = EraseSelf(m_files, path_sfv)
            /\ faults' = faults + Errors(open_ec)
            /\ IF open_ec
               THEN /\ fs' = fs
                    /\ history' = Append(history,
                           [Finished("nothing", <<>>, Contains(m_files, path_sfv))
                               EXCEPT !.faults = faults + 1])
               ELSE /\ fs' = [fs EXCEPT ![path_sfv] = SfvBytes(m_files')]
                    /\ history' = Append(history,
                           Finished("created", Serialize(m_files'),
                                    Contains(m_files, path_sfv)))
    /\ pc' = "exit"
    /\ UNCHANGED <<m_check_sfv, path_file, todo, m_bad_files, sfv_lines, opens,
                   appends, runs, engineVars, workerVars>>

\* the manifests the program is asked to check
SfvTargets == {SfvName(DirName), SfvName(FileX)}

\* one step of one invocation of the program
Next ==
    \/ StartDir
    \/ StartFile(FileX, FALSE)
    \/ \E target \in SfvTargets : StartFile(target, TRUE)
    \/ RejectTarget(DirName, FALSE)
    \/ RejectTarget(FileX, FALSE)
    \/ \E target \in SfvTargets : RejectTarget(target, TRUE)
    \/ ProcessEntry
    \/ EndDirLoop
    \/ ProcessSingle
    \/ OpenSfv
    \/ VerifyLine
    \/ VerifyLineUndefined
    \/ EndSfv
    \/ WriteReport
    \/ WriteSfv

\* the name of the directory's manifest
DirSfv == SfvName(DirName)

\* the manifest line "<path> <checksum>"
DataLine(path, hash) == path \o <<32>> \o hash

RECURSIVE FileOfLines(_)
\* the bytes of a text file of these lines
FileOfLines(lines) ==
    IF lines = <<>> THEN <<>>
    ELSE Head(lines) \o <<13, 10>> \o FileOfLines(Tail(lines))

\* manifests found in the directory before the first invocation: one listing
\* x with the checksum of "A", one whose only line is a checksum without a path
OldManifests ==
    {FileOfLines(<<DataLine(FileX, FileHash(<<65>>))>>),
     FileOfLines(<<FileHash(<<65>>)>>)}

\* a directory of regular files, possibly with a manifest already in it
Init ==
    /\ EngineIdle
    /\ ProgramIdle
    /\ WorkersIdle
    /\ \E cx \in Contents \cup {NoFile}, cy \in {<<66>>, NoFile},
          cm \in OldManifests \cup {NoFile} :
          fs = [n \in Names |->
                  IF n = FileX THEN cx
                  ELSE IF n = FileY THEN cy
                  ELSE IF n = DirSfv THEN cm
                  ELSE NoFile]

Spec == Init /\ [][Next]_vars

\* ------------------------------------------------------------------------
\* Checks of hand-written manifests
\* ------------------------------------------------------------------------

\* most lines of a hand-written manifest
MaxLines == 2

\* text with its letters in lower case
LowerCase(text) ==
    [i \in 1..Len(text) |-> IF text[i] \in 65..90 THEN text[i] + 32 ELSE text[i]]

\* the checksums hand-written lines carry: those of an empty file and of "A"
HandHashes == {TrueHash(<<>>), TrueHash(<<65>>)}

\* the lines of hand-written manifests, all about the file x: a data line in
\* upper and in lower case, a comment, a line with 7 and one with 9 hex
\* digits, a checksum without a path, a data line with two spaces, a blank line
HandLines ==
    UNION {{DataLine(FileX, h),
            DataLine(FileX, LowerCase(h)),
            <<59>> \o DataLine(FileX, h),
            DataLine(FileX, Tail(h)),
            DataLine(FileX, <<48>> \o h),
            h,
            FileX \o <<32, 32>> \o h} : h \in HandHashes}
    \cup {<<>>}

\* a directory holding x or not, and a hand-written manifest or none
VerifyInit ==
    /\ EngineIdle
    /\ ProgramIdle
    /\ WorkersIdle
    /\ \E cx \in Contents \cup {NoFile},
          cm \in {FileOfLines(ls) : ls \in SeqsUpTo(HandLines, MaxLines)} \cup {NoFile} :
          fs = [n \in Names |->
                  IF n = FileX THEN cx ELSE IF n = DirSfv THEN cm ELSE NoFile]

\* one invocation, lazy_crc <directory>.sfv --check
VerifyNext ==
    \/ runs = 0 /\ StartFile(DirSfv, TRUE)
    \/ runs = 0 /\ RejectTarget(DirSfv, TRUE)
    \/ OpenSfv
    \/ VerifyLine
    \/ VerifyLineUndefined
    \/ EndSfv
    \/ WriteReport

SpecVerify == VerifyInit /\ [][VerifyNext]_vars

\* ------------------------------------------------------------------------
\* Properties of build and check runs
\* ------------------------------------------------------------------------

\* a finished build that wrote its manifest, no filesystem call having failed
Built(r, target) ==
    ~r.check /\ r.target = target /\ r.status = "created" /\ r.faults = 0

\* a finished check of a manifest that ran to its report, no filesystem call
\* having failed
Checked(r, target) ==
    r.check /\ r.target = target /\ r.status \in {"success", "failed"} /\ r.faults = 0

\* C2: a check of the directory's manifest that directly follows the build
\* of that manifest, the directory untouched in between, ends with an empty
\* bad-file log and reports success.
RoundTrip ==
    \A i \in 1..(Len(history) - 1) :
        (Built(history[i], DirName) /\ Checked(history[i + 1], DirSfv)) =>
            (history[i + 1].bad = <<>> /\ history[i + 1].status = "success")

\* the least of a non-empty set of names, in the order of the store
LeastName(names) == CHOOSE n \in names : \A m \in names \ {n} : SeqLess(n, m)

RECURSIVE ManifestOf(_, _)
\* the manifest text for these files of the directory: one line per name,
\* in key order, with the checksum of the file's whole content
ManifestOf(fsys, names) ==
    IF names = {} THEN <<>>
    ELSE LET n == LeastName(names)
         IN DataLine(n, TrueHash(fsys[n])) \o <<10>> \o ManifestOf(fsys, names \ {n})

\* the files a build of the target is to list: the single file, or
\* everything in the directory but the manifest itself
Listed(fsys, target) ==
    IF target = DirName THEN Existing(fsys) \ {SfvName(target)} ELSE {target}

\* the line starts with this path and a space
LineOf(l, path) ==
    Len(l) > Len(path) /\ SubSeq(l, 1, Len(path) + 1) = path \o <<32>>

\* C7: no manifest a build has written holds a line for the manifest's own
\* file name; and the manifest a build has just written, no filesystem call
\* having failed, is exactly the lines of the other files it processed, in
\* key order, each with its file's checksum.
NeverListsItself ==
    /\ \A i \in 1..Len(history) :
          (~history[i].check /\ history[i].status = "created") =>
              \A k \in 1..Len(GetLines(history[i].out)) :
                  ~LineOf(GetLines(history[i].out)[k], SfvName(history[i].target))
    /\ \A target \in {DirName, FileX} :
          (history # <<>> /\ Built(Last(history), target)) =>
              Last(history).out = ManifestOf(fs, Listed(fs, target))

\* a build of the directory has written its manifest, a file under the
\* manifest's name having been among the files it processed
SelfOmitted ==
    /\ history # <<>>
    /\ Built(Last(history), DirName)
    /\ Last(history).had_self
    /\ Last(history).out # <<>>

\* C8: two builds of the same target in a row, no filesystem call having
\* failed in either, write the same manifest text.
BuildIdempotent ==
    \A i \in 1..(Len(history) - 1) : \A target \in {DirName, FileX} :
        (Built(history[i], target) /\ Built(history[i + 1], target)) =>
            history[i + 1].out = history[i].out

\* the directory has been built twice in a row, the second time with the
\* first manifest in it, and the manifest lists two files
BuiltTwice ==
    /\ Len(history) = 2
    /\ Built(history[1], DirName)
    /\ Built(history[2], DirName)
    /\ ~history[1].had_self
    /\ history[2].had_self
    /\ Len(GetLines(history[2].out)) = 2

\* ------------------------------------------------------------------------
\* Properties of the check of one manifest
\* ------------------------------------------------------------------------

\* this step of the getline loop has taken the line under getline
LineTaken == pc = "sfv_loop" /\ sfv_lines # <<>> /\ sfv_lines' = Tail(sfv_lines)

\* what this step has put at the end of m_bad_files
Appended == SubSeq(m_bad_files', Len(m_bad_files) + 1, Len(m_bad_files'))

\* C3: a step of the check on a line that names a file appends at most one
\* entry, for that file, and the first failing step decides its reason: a
\* file that is missing or whose stream is empty gives "Unable to open the
\* file"; otherwise a failed size probe gives "Unable to obtain the file
\* size"; otherwise a checksum whose digits denote another value than the
\* CRC32 of the file's content gives "CRC does not match"; otherwise digits
\* equal to the rendered CRC32 give no entry.
ClassifiedByFirstFailure ==
    [][(LineTaken /\ NamesFile(line)) =>
          LET path == PathInSfv(line)
              crc_in_sfv == Group2(line)
          IN /\ SubSeq(m_bad_files', 1, Len(m_bad_files)) = m_bad_files
             /\ appends' \in {appends, appends + 1}
             /\ opens' = opens + 1
             /\ IF ~Exists(fs, path) \/ fs[path] = <<>>
                THEN Appended = BadEntry(path, ReasonOpen) /\ appends' = appends + 1
                ELSE IF faults' > faults
                THEN Appended = BadEntry(path, ReasonSize) /\ appends' = appends + 1
                ELSE IF UpperCase(crc_in_sfv) # TrueHash(fs[path])
                THEN Appended = BadEntry(path, ReasonCrc) /\ appends' = appends + 1
                ELSE IF crc_in_sfv = TrueHash(fs[path])
                THEN Appended = <<>> /\ appends' = appends
                ELSE TRUE]_vars

\* a check has read two lines naming the file x, which exists: one with
\* another checksum than x's, which is in the log, and one with x's
\* checksum, which is not
MismatchLogged ==
    /\ pc = "sfv_loop"
    /\ sfv_lines = <<>>
    /\ opens = 3
    /\ appends = 1
    /\ faults = 0
    /\ Exists(fs, FileX)
    /\ m_bad_files = BadEntry(FileX, ReasonCrc)

\* C4: a check that has run to its report has signalled failure exactly
\* when it appended at least one entry, and then the report file holds the
\* log; when it appended none, it has signalled success and there is no
\* report file. At every moment the log holds one line per entry appended so
\* far: nothing is added for a match and nothing is ever taken out.
ReportIffAppended ==
    /\ Len(GetLines(m_bad_files)) = appends
    /\ \A i \in 1..Len(history) :
          history[i].status \in {"success", "failed"} =>
              /\ history[i].status = "failed" <=> history[i].appends > 0
              /\ history[i].status = "failed" =>
                    /\ history[i].out = history[i].bad
                    /\ Len(GetLines(history[i].out)) = history[i].appends
                    /\ fs[LogName] = TextModeOut(utf16_to_utf8(history[i].bad))
              /\ history[i].status = "success" =>
                    /\ history[i].bad = <<>>
                    /\ fs[LogName] = NoFile

\* a check has ended in failure with two entries in its report
ReportWritten ==
    /\ history # <<>>
    /\ Last(history).status = "failed"
    /\ Last(history).appends = 2
    /\ Exists(fs, LogName)

\* the line ends in exactly 8 hexadecimal characters
EndsInEightHex(l) ==
    /\ Len(l) >= 8
    /\ \A i \in (Len(l) - 7)..Len(l) : IsHexChar(l[i])
    /\ IF Len(l) = 8 THEN TRUE ELSE ~IsHexChar(l[Len(l) - 8])

\* a blank line, a comment, or a line not ending in exactly 8 hexadecimal
\* characters
Ignorable(l) == l = <<>> \/ Head(l) = 59 \/ ~EndsInEightHex(l)

\* C5: the parser does not match a blank line, a comment line or a line not
\* ending in exactly 8 hexadecimal characters, and every step the check can
\* take on such a line leaves the log alone, opens no file, reports no
\* error and goes on to the next line of the manifest.
IgnorableLineSkipped ==
    [][(pc = "sfv_loop" /\ sfv_lines # <<>> /\ Ignorable(line)) =>
          /\ ~Matched(line)
          /\ sfv_lines' = Tail(sfv_lines)
          /\ pc' = "sfv_loop"
          /\ UNCHANGED <<m_bad_files, appends, opens, faults, fs, history>>]_vars

\* a check of a manifest of two lines, a comment among them and both to be
\* ignored, has ended in success, having opened the manifest alone
OnlyIgnorableLines ==
    /\ history # <<>>
    /\ Last(history).status = "success"
    /\ opens = 1
    /\ Exists(fs, DirSfv)
    /\ Len(ReadLines(fs[DirSfv])) = 2
    /\ \A k \in 1..2 : Ignorable(ReadLines(fs[DirSfv])[k])
    /\ \E k \in 1..2 : ReadLines(fs[DirSfv])[k] # <<>> /\ Head(ReadLines(fs[DirSfv])[k]) = 59

\* the line of the log "<path> CRC does not match"
IsMismatchOf(l, path) == l = path \o <<32>> \o ReasonCrc

\* C6: the checksum is compared without regard to the case of the hex
\* digits: for every "CRC does not match" entry of the log there is a line
\* of the manifest for that file whose 8 digits, in whatever case, denote
\* another value than the CRC32 of the file's content.
CaseInsensitiveCompare ==
    (pc \in {"sfv_loop", "write_sfv"} /\ m_check_sfv) =>
        \A k \in 1..Len(GetLines(m_bad_files)) : \A path \in Names :
            (IsMismatchOf(GetLines(m_bad_files)[k], path) /\ Exists(fs, path)) =>
                \E n \in 1..Len(ReadLines(fs[path_file])) :
                    LET l == ReadLines(fs[path_file])[n]
                    IN /\ NamesFile(l)
                       /\ PathInSfv(l) = path
                       /\ UpperCase(Group2(l)) # TrueHash(fs[path])

\* ------------------------------------------------------------------------
\* The manifest store on its own: insert_files called again and again
\* ------------------------------------------------------------------------

\* most calls of insert_files
MaxInserts == 3

\* the keys and the checksums insert_files is called with
StoreKeys == {FileX, FileY, DirSfv}
StoreHashes == {TrueHash(<<>>), TrueHash(<<65>>)}

\* an empty store
StoreInit ==
    /\ EngineIdle
    /\ ProgramIdle
    /\ WorkersIdle
    /\ fs = [n \in Names |-> NoFile]

\* insert_files(file, crc)
InsertFiles ==
    /\ Len(inserts) < MaxInserts
    /\ \E file \in StoreKeys, hash \in StoreHashes :
          /\ m_files' = insert_files(m_files, file, hash)
          /\ inserts' = Append(inserts, <<file, hash>>)
    /\ UNCHANGED <<fs, pc, m_check_sfv, path_file, todo, m_bad_files, sfv_lines,
                   faults, opens, appends, runs, history, m_files_mtx, wpc, wfile,
                   wout, wseen, engineVars>>

StoreNext == InsertFiles

SpecStore == StoreInit /\ [][StoreNext]_vars

\* the first call of insert_files with this key
FirstInsert(key) ==
    inserts[CHOOSE i \in 1..Len(inserts) :
                /\ inserts[i][1] = key
                /\ \A j \in 1..(i - 1) : inserts[j][1] # key]

\* C9: after any sequence of inserts the store holds its keys in strictly
\* ascending order, so no key twice; its keys are the keys inserted; and
\* each key has the checksum of the first insert for it. The store being
\* fixed by that, an insert for a key already present changes nothing.
FirstWriteWins ==
    /\ \A i \in 1..Len(m_files) : \A j \in 1..Len(m_files) :
          i < j => SeqLess(m_files[i][1], m_files[j][1])
    /\ {m_files[i][1] : i \in 1..Len(m_files)} = {inserts[i][1] : i \in 1..Len(inserts)}
    /\ \A i \in 1..Len(m_files) : m_files[i] = FirstInsert(m_files[i][1])

\* a key has been inserted, then another, then the first again with another
\* checksum
InsertedAgain ==
    /\ Len(inserts) = 3
    /\ inserts[1][1] = inserts[3][1]
    /\ inserts[1][2] # inserts[3][2]
    /\ inserts[2][1] # inserts[1][1]
    /\ Len(m_files) = 2

\* ------------------------------------------------------------------------
\* process_file called from several workers at once
\* ------------------------------------------------------------------------

\* a directory of files, a mode, and workers yet to start
WorkersInit ==
    /\ EngineIdle
    /\ WorkersIdle
    /\ pc = "exit"
    /\ m_check_sfv \in BOOLEAN
    /\ path_file = DirName
    /\ todo = {}
    /\ m_files = <<>>
    /\ m_bad_files = <<>>
    /\ sfv_lines = <<>>
    /\ faults = 0
    /\ opens = 0
    /\ appends = 0
    /\ runs = 0
    /\ history = <<>>
    /\ \E cx \in Contents \cup {NoFile} :
          fs = [n \in Names |->
                  IF n = FileX THEN cx ELSE IF n = FileY THEN <<66>> ELSE NoFile]

\* the step leaves the program's state but the store and the log alone
WorkerFrame ==
    UNCHANGED <<fs, pc, m_check_sfv, path_file, todo, sfv_lines, faults, opens,
                runs, history, inserts, engineVars>>

\* build mode, up to the call of insert_files: the file is opened and its
\* checksum computed, no lock held
Compute(w) ==
    /\ ~m_check_sfv
    /\ wpc[w] = "idle"
    /\ \E file \in {FileX, FileY} :
          /\ Exists(fs, file)
          /\ wfile' = [wfile EXCEPT ![w] = file]
          /\ wout' = [wout EXCEPT ![w] = FileHash(fs[file])]
    /\ wpc' = [wpc EXCEPT ![w] = "insert"]
    /\ UNCHANGED <<m_files, m_bad_files, appends, m_files_mtx, wseen>>
    /\ WorkerFrame

\* check mode, one line up to the call of append_bad_files: the file is
\* probed and its checksum compared, no lock held
Verify(w) ==
    /\ m_check_sfv
    /\ wpc[w] = "idle"
    /\ \E path \in {FileX, FileY}, crc_in_sfv \in StoreHashes :
          /\ wfile' = [wfile EXCEPT ![w] = path]
          /\ wout' = [wout EXCEPT ![w] = CheckEntry(fs, path, crc_in_sfv, FALSE)]
          /\ wpc' = [wpc EXCEPT ![w] =
                       IF CheckEntry(fs, path, crc_in_sfv, FALSE) = <<>>
                       THEN "done" ELSE "append"]
    /\ UNCHANGED <<m_files, m_bad_files, appends, m_files_mtx, wseen>>
    /\ WorkerFrame

\* std::lock_guard guard(m_files_mtx)
LockGuard(w) ==
    /\ wpc[w] = "insert"
    /\ m_files_mtx = 0
    /\ m_files_mtx' = w
    /\ wpc' = [wpc EXCEPT ![w] = "locked"]
    /\ UNCHANGED <<m_files, m_bad_files, appends, wfile, wout, wseen>>
    /\ WorkerFrame

\* m_files.try_emplace(file, crc)
TryEmplace(w) ==
    /\ wpc[w] = "locked"
    /\ m_files' = try_emplace(m_files, wfile[w], wout[w])
    /\ wpc' = [wpc EXCEPT ![w] = "unlock"]
    /\ UNCHANGED <<m_bad_files, appends, m_files_mtx, wfile, wout, wseen>>
    /\ WorkerFrame

\* the guard goes out of scope
Unlock(w) ==
    /\ wpc[w] = "unlock"
    /\ m_files_mtx' = 0
    /\ wpc' = [wpc EXCEPT ![w] = "done"]
    /\ UNCHANGED <<m_files, m_bad_files, appends, wfile, wout, wseen>>
    /\ WorkerFrame

\* append_bad_files, m_bad_files += ...: the string is read, no lock taken
AppendLoad(w) ==
    /\ wpc[w] = "append"
    /\ wseen' = [wseen EXCEPT ![w] = m_bad_files]
    /\ wpc' = [wpc EXCEPT ![w] = "store"]
    /\ UNCHANGED <<m_files, m_bad_files, appends, m_files_mtx, wfile, wout>>
    /\ WorkerFrame

\* append_bad_files, m_bad_files += ...: the string is written. Another
\* worker having written it meanwhile, the two unsynchronized writes race:
\* the entry lands after what this worker read or after what is there now
AppendStore(w) ==
    /\ wpc[w] = "store"
    /\ m_bad_files' \in {wseen[w] \o wout[w], m_bad_files \o wout[w]}
    /\ appends' = appends + 1
    /\ wpc' = [wpc EXCEPT ![w] = "done"]
    /\ UNCHANGED <<m_files, m_files_mtx, wfile, wout, wseen>>
    /\ WorkerFrame

\* every worker runs process_file once, all in build mode or all in check mode
WorkersNext ==
    \E w \in Workers :
        \/ Compute(w)
        \/ Verify(w)
        \/ LockGuard(w)
        \/ TryEmplace(w)
        \/ Unlock(w)
        \/ AppendLoad(w)
        \/ AppendStore(w)

SpecWorkers == WorkersInit /\ [][WorkersNext]_vars

\* the worker is between taking m_files_mtx and giving it back
InInsert(w) == wpc[w] \in {"locked", "unlock"}

\* the worker is inside the += of append_bad_files
InAppend(w) == wpc[w] = "store"

\* C10: no two workers are inside the store insert at once, no two are
\* inside the append to the log at once, a worker computing a checksum or
\* probing a file holds no lock, and once all workers are done the log holds
\* one line for every append made and the store a key for every file
\* inserted.
ExclusiveMutations ==
    /\ \A v \in Workers : \A w \in Workers \ {v} : ~(InInsert(v) /\ InInsert(w))
    /\ \A v \in Workers : \A w \in Workers \ {v} : ~(InAppend(v) /\ InAppend(w))
    /\ \A w \in Workers : m_files_mtx = w <=> InInsert(w)
    /\ (\A w \in Workers : wpc[w] = "done") =>
          /\ Len(GetLines(m_bad_files)) = appends
          /\ m_check_sfv \/ {m_files[i][1] : i \in 1..Len(m_files)} = {wfile[w] : w \in Workers}

\* ------------------------------------------------------------------------
\* calculate_crc on a file shorter than its probed size
\* ------------------------------------------------------------------------

\* what new char[n] holds where file_in.read has stored nothing: the bytes
\* are indeterminate, any n of them
Uninitialized(n) == {t \in SeqsUpTo(DataBytes, n) : Len(t) = n}

\* process_file has opened x and probed its size, which is the length of
\* the content or more (the file has shrunk since), and calls calculate_crc;
\* in check mode the line under getline names x
TruncInit ==
    /\ WorkersIdle
    /\ stream \in SeqsUpTo(DataBytes, MaxData)
    /\ size_probed \in Len(stream)..MaxData
    /\ chunk_cap \in ChunkSizes
    /\ crc = Zero32
    /\ bytes_processed = 0
    /\ reads = 0
    /\ short_reads = 0
    /\ calc_pc = "loop"
    /\ fs = [n \in Names |-> IF n = FileX THEN stream ELSE NoFile]
    /\ pc = "calc"
    /\ m_check_sfv \in BOOLEAN
    /\ path_file = FileX
    /\ todo = {}
    /\ m_files = <<>>
    /\ m_bad_files = <<>>
    /\ IF m_check_sfv
       THEN \E h \in {TrueHash(stream), TrueHash(<<>>)} : sfv_lines = <<DataLine(FileX, h)>>
       ELSE sfv_lines = <<>>
    /\ faults = 0
    /\ opens = 1
    /\ appends = 0
    /\ runs = 1
    /\ history = <<>>

\* one iteration of the while loop: read stores the bytes the file still
\* has, up to chunk_size of them, the rest of the buffer stays as new char[]
\* left it, and chunk_size bytes of the buffer are folded whatever was read
ReadChunkUnchecked ==
    /\ calc_pc = "loop"
    /\ bytes_processed < size_probed
    /\ LET n == chunk_size(chunk_cap, size_probed - bytes_processed)
           got == file_read(stream, bytes_processed, n)
       IN /\ \E rest \in Uninitialized(n - Len(got)) :
                crc' = crc32_2x16bytes_prefetch(got \o rest, crc)
          /\ short_reads' = short_reads + (IF Len(got) < n THEN 1 ELSE 0)
          /\ bytes_processed' = bytes_processed + n
    /\ reads' = reads + 1
    /\ UNCHANGED <<stream, chunk_cap, calc_pc, size_probed, programVars, workerVars>>

\* the loop condition fails: return crc
ReturnUnchecked ==
    /\ calc_pc = "loop"
    /\ ~(bytes_processed < size_probed)
    /\ calc_pc' = "done"
    /\ UNCHANGED <<stream, chunk_cap, crc, bytes_processed, reads, size_probed,
                   short_reads, programVars, workerVars>>

\* build mode: insert_files(path_file.filename(), to_hex(calculate_crc(file, size)))
InsertReturned ==
    /\ calc_pc = "done"
    /\ pc = "calc"
    /\ ~m_check_sfv
    /\ m_files' = insert_files(m_files, path_file, to_hex(crc))
    /\ pc' = "write_sfv"
    /\ UNCHANGED <<fs, m_check_sfv, path_file, todo, m_bad_files, sfv_lines, faults,
                   opens, appends, runs, history, engineVars, workerVars>>

\* check mode: if (to_hex(calculate_crc(file_crc, size)) != crc_in_sfv)
\* append_bad_files(...), and on to the next line
CompareReturned ==
    /\ calc_pc = "done"
    /\ pc = "calc"
    /\ m_check_sfv
    /\ IF HashDiffers(to_hex(crc), Group2(line))
       THEN /\ m_bad_files' = m_bad_files \o BadEntry(PathInSfv(line), ReasonCrc)
            /\ appends' = appends + 1
       ELSE UNCHANGED <<m_bad_files, appends>>
    /\ sfv_lines' = Tail(sfv_lines)
    /\ pc' = "sfv_loop"
    /\ UNCHANGED <<fs, m_check_sfv, path_file, todo, m_files, faults, opens, runs,
                   history, engineVars, workerVars>>

TruncNext ==
    \/ ReadChunkUnchecked
    \/ ReturnUnchecked
    \/ InsertReturned
    \/ CompareReturned

SpecTruncated == TruncInit /\ [][TruncNext]_vars

\* C11: once a read has returned fewer bytes than it was asked for, the
\* engine does not return a checksum, and the caller neither inserts one for
\* the file into the store nor compares one with the manifest's.
ShortReadAborts ==
    short_reads > 0 =>
        /\ calc_pc # "done"
        /\ m_files = <<>>
        /\ pc = "calc"

====
